---- MODULE Spec2Model ----
(***************************************************************************)
(* A model of the ALOS-PALSAR reader (notebooks/utils.py,                  *)
(* read_alospalsar_image) and of the frequency-domain Hann filter          *)
(* (notebooks/hann_window_alospalsar.py, cells 3.1 to 3.3).                *)
(*                                                                         *)
(* SpecReader runs the reader statement by statement on a file drawn from  *)
(* a bounded set.  Arrays are kept the way numpy keeps them, as strided    *)
(* views (offset, shape, strides) over a buffer, so the 18432-line image   *)
(* is never enumerated in a state; its elements are computed on demand.    *)
(* SpecFilter runs the filter on a small complex matrix.  Complex values   *)
(* are kept as terms (which DFT bin of which row, times which window       *)
(* coefficient); zero-ness and finiteness are predicates on the terms.     *)
(***************************************************************************)
EXTENDS Integers, Sequences, FiniteSets, TLC

VARIABLES
    file,            \* reader input: [size, f236, f248]
    rpc,             \* reader position
    fp,              \* the file handle: "none" | "open" | "closed"
    pos,             \* the handle's file position
    npixel,          \* utils.py: npixel
    nrec,            \* utils.py: nrec
    data,            \* utils.py: data (a strided view)
    slc,             \* utils.py: slc ([ok, shape, re, im])
    outcome,         \* "running" | "return" | "ValueError" | "struct.error"
    fpc,             \* filter position
    n_fft,           \* hann_window_alospalsar.py: n_fft
    img,             \* the filter's input matrix (the notebook's slc)
    todo,            \* rows the running array operation has not done yet
    slc_fft,         \* hann_window_alospalsar.py: slc_fft
    hann_window,     \* hann_window_alospalsar.py: hann_window
    slc_fft_filtered,\* hann_window_alospalsar.py: slc_fft_filtered
    slc_filtered,    \* hann_window_alospalsar.py: slc_filtered
    foutcome         \* "running" | "return" | "ValueError"

rvars == <<file, rpc, fp, pos, npixel, nrec, data, slc, outcome>>

fvars == <<fpc, n_fft, img, todo, slc_fft, hann_window,
           slc_fft_filtered, slc_filtered, foutcome>>

vars == <<rvars, fvars>>

-----------------------------------------------------------------------------
(* Program constants of the reader.                                        *)

PixelCountOffset == 248
RecordLengthOffset == 236
FieldBytes == 8
PrefixBytes == 412
SampleBytes == 8
nline == 18432
DataStartOffset == 720
FloatBytes == 4

-----------------------------------------------------------------------------
(* Python's int(bytes): ASCII whitespace is stripped at both ends, one     *)
(* sign is allowed, digits may be separated by single underscores.         *)

Digits == {"0", "1", "2", "3", "4", "5", "6", "7", "8", "9"}

DigitVal(c) ==
    CASE c = "0" -> 0 [] c = "1" -> 1 [] c = "2" -> 2 [] c = "3" -> 3
      [] c = "4" -> 4 [] c = "5" -> 5 [] c = "6" -> 6 [] c = "7" -> 7
      [] c = "8" -> 8 [] c = "9" -> 9 [] OTHER -> 0

RECURSIVE LStrip(_)
LStrip(s) ==
    IF s # <<>> /\ Head(s) = " " THEN LStrip(Tail(s)) ELSE s

RECURSIVE RStrip(_)
RStrip(s) ==
    IF s # <<>> /\ s[Len(s)] = " " THEN RStrip(SubSeq(s, 1, Len(s) - 1)) ELSE s

WellFormedDigits(s) ==
    /\ s # <<>>
    /\ s[1] \in Digits
    /\ s[Len(s)] \in Digits
    /\ \A i \in 1..Len(s) : s[i] \in Digits \cup {"_"}
    /\ \A i \in 1..(Len(s) - 1) : ~(s[i] = "_" /\ s[i + 1] = "_")

RECURSIVE DigitsValue(_, _)
DigitsValue(s, acc) ==
    IF s = <<>> THEN acc
    ELSE IF Head(s) = "_" THEN DigitsValue(Tail(s), acc)
    ELSE DigitsValue(Tail(s), 10 * acc + DigitVal(Head(s)))

ParseInt(bytes) ==
    LET t == RStrip(LStrip(bytes))
        signed == t # <<>> /\ t[1] \in {"+", "-"}
        body == IF signed THEN Tail(t) ELSE t
        mag == DigitsValue(body, 0)
    IN  IF WellFormedDigits(body)
        THEN [ok |-> TRUE, val |-> IF signed /\ t[1] = "-" THEN -mag ELSE mag]
        ELSE [ok |-> FALSE, val |-> 0]

\* Python's int(a / b) for an exact quotient: truncation toward zero.
PyIntDiv(a, b) ==
    IF a >= 0 THEN a \div b ELSE -((-a) \div b)

-----------------------------------------------------------------------------
(* The file.  The two header fields are explicit byte strings; every       *)
(* aligned 4-byte word elsewhere holds its own word index, big-endian, so  *)
(* every float of the payload is distinct and names the place it came     *)
(* from.                                                                   *)

Pow256(k) ==
    CASE k = 0 -> 1 [] k = 1 -> 256 [] k = 2 -> 65536 [] OTHER -> 16777216

PayloadByte(o) ==
    ((o \div FloatBytes) \div Pow256(FloatBytes - 1 - (o % FloatBytes))) % 256

\* struct's ">f": the most significant byte comes first.
BE32(o) ==
    PayloadByte(o) * Pow256(3) + PayloadByte(o + 1) * Pow256(2)
      + PayloadByte(o + 2) * Pow256(1) + PayloadByte(o + 3)

\* Mutant of ReadLen: a read that always hands back n bytes, padding past
\* the end of the file.
ReadLenPadded(f, p, n) ==
    LET left == IF f.size > p THEN f.size - p ELSE 0
    IN  IF n < 0 THEN left ELSE n

\* fp.read(n) at position p: the bytes actually there, all of them for n < 0.
ReadLen(f, p, n) ==
    LET left == IF f.size > p THEN f.size - p ELSE 0
    IN  IF n < 0 \/ n > left THEN left ELSE n

\* fp.read(8) inside a header field whose content is `field`.
ReadField(f, field, p) ==
    SubSeq(field, 1, ReadLen(f, p, FieldBytes))

-----------------------------------------------------------------------------
(* numpy arrays as strided views over the tuple struct.unpack returned:    *)
(* element (i, j) of a view is float number off + i*strides[1] +           *)
(* j*strides[2] of the buffer that starts at file offset buf.              *)

NoView == [buf |-> 0, off |-> 0, shape |-> <<>>, strides |-> <<>>]

NoSlc == [ok |-> FALSE, shape |-> <<>>, re |-> NoView, im |-> NoView]

\* data[i, j] of a two-dimensional view: the float decoded from the file.
At2(v, i, j) ==
    BE32(v.buf + FloatBytes * (v.off + i * v.strides[1] + j * v.strides[2]))

\* struct.unpack(">%sf" % count, buffer) and np.array(...): a flat array of
\* count floats, or struct.error when the format is malformed (a negative
\* count) or the buffer is not exactly 4 * count bytes long.
UnpackOk(count, buflen) ==
    count >= 0 /\ buflen = FloatBytes * count

Unpack(start, count) ==
    [buf |-> start, off |-> 0, shape |-> <<count>>, strides |-> <<1>>]

\* np.array(data).reshape(-1, w)
ReshapeOk(v, w) ==
    w > 0 /\ v.shape[1] % w = 0

Reshape(v, w) ==
    [v EXCEPT !.shape = <<v.shape[1] \div w, w>>, !.strides = <<w, 1>>]

\* v[:, a:b] for 0 <= a and 0 <= b
SliceCols(v, a, b) ==
    LET c == v.shape[2]
        lo == IF a < c THEN a ELSE c
        hi == IF b < c THEN b ELSE c
    IN  [v EXCEPT !.off = v.off + lo * v.strides[2],
                  !.shape = <<v.shape[1], IF hi > lo THEN hi - lo ELSE 0>>]

\* v[:, a::2] for 0 <= a
StepCols(v, a) ==
    LET c == v.shape[2]
        lo == IF a < c THEN a ELSE c
    IN  [v EXCEPT !.off = v.off + lo * v.strides[2],
                  !.shape = <<v.shape[1], (c - lo + 1) \div 2>>,
                  !.strides = <<v.strides[1], 2 * v.strides[2]>>]

\* Mutant of RemovePrefix: the prefix counted in samples, not in floats.
RemovePrefixInSamples(v, rec) ==
    SliceCols(v, PyIntDiv(PrefixBytes, SampleBytes), PyIntDiv(rec, FloatBytes))

\* data[:, int(412 / 4) : int(nrec / 4)]
RemovePrefix(v, rec) ==
    SliceCols(v, PyIntDiv(PrefixBytes, FloatBytes), PyIntDiv(rec, FloatBytes))

\* Mutant of SeparateIQ: the I and Q columns taken the other way round.
SeparateQI(v) ==
    LET re == StepCols(v, 1)
        im == StepCols(v, 0)
    IN  IF re.shape = im.shape
        THEN [ok |-> TRUE, shape |-> re.shape, re |-> re, im |-> im]
        ELSE NoSlc

\* data[:, ::2] + 1j * data[:, 1::2]: numpy adds equal shapes, or
\* broadcasts a one-column operand; anything else is a ValueError.
SeparateIQ(v) ==
    LET re == StepCols(v, 0)
        im == StepCols(v, 1)
        ok == re.shape = im.shape \/ re.shape[2] = 1 \/ im.shape[2] = 1
        cols == IF re.shape[2] = 1 THEN im.shape[2] ELSE re.shape[2]
    IN  IF ok THEN [ok |-> TRUE, shape |-> <<re.shape[1], cols>>,
                    re |-> re, im |-> im]
        ELSE NoSlc

\* slc[i, j] as the pair (real part, imaginary part)
SlcAt(s, i, j) ==
    <<At2(s.re, i, IF s.re.shape[2] = 1 THEN 0 ELSE j),
      At2(s.im, i, IF s.im.shape[2] = 1 THEN 0 ELSE j)>>

-----------------------------------------------------------------------------
(* The files the reader is run on.                                         *)

Spaces(k) == [i \in 1..k |-> " "]

LeftJustified(core) == core \o Spaces(FieldBytes - Len(core))

RightJustified(core) == Spaces(FieldBytes - Len(core)) \o core

\* Contents of the pixel-count field: numbers, signed numbers, an
\* underscore-separated number, and fields int() rejects.
PixelCores ==
    { <<"0">>, <<"1">>, <<"2">>, <<"3">>, <<"+", "2">>, <<"0", "_", "2">>,
      <<"-", "1">>, <<"-", "5", "1">>, <<"-", "5", "2">>,
      <<>>, <<"x">>, <<"1", "x">>, <<"1", " ", "2">>, <<"-">>,
      <<"2", ".", "0">> }

PixelFields ==
    {LeftJustified(c) : c \in PixelCores} \cup {RightJustified(c) : c \in PixelCores}

\* Contents of the field at offset 236: a number, blanks, and text.
RecordFields ==
    { RightJustified(<<"1", "8", "4", "3", "2">>), Spaces(FieldBytes),
      LeftJustified(<<"a", "b", "c">>) }

\* The payload bytes a file with this pixel-count field needs.
PayloadBytes(field) ==
    LET r == ParseInt(field)
    IN  (PrefixBytes + (IF r.ok THEN r.val ELSE 1) * SampleBytes) * nline

\* File sizes around every boundary the reader crosses: inside the header
\* field, before the payload, one float and one byte short of the payload,
\* the exact size, and a file with trailing bytes.
FileSizes(field) ==
    { n \in { 0, PixelCountOffset + 2, PixelCountOffset + FieldBytes,
              DataStartOffset, DataStartOffset + FloatBytes,
              DataStartOffset + PayloadBytes(field) - FloatBytes,
              DataStartOffset + PayloadBytes(field) - 1,
              DataStartOffset + PayloadBytes(field),
              DataStartOffset + PayloadBytes(field) + 100 } : n >= 0 }

Files ==
    UNION { { [size |-> n, f236 |-> g, f248 |-> f] : n \in FileSizes(f) } :
            <<f, g>> \in PixelFields \X RecordFields }

-----------------------------------------------------------------------------
(* The reader, one action per statement of read_alospalsar_image.          *)

ReaderInit ==
    /\ file \in Files
    /\ rpc = "open"
    /\ fp = "none"
    /\ pos = 0
    /\ npixel = 0
    /\ nrec = 0
    /\ data = NoView
    /\ slc = NoSlc
    /\ outcome = "running"

\* An exception leaves the function: the frame, and with it the handle the
\* local fp names, is kept alive by the traceback the caller receives.
Raise(kind) ==
    /\ rpc' = "done"
    /\ outcome' = kind

\* fp = open(file_path, mode="rb")
Open ==
    /\ rpc = "open"
    /\ fp' = "open"
    /\ pos' = 0
    /\ rpc' = "npixel"
    /\ UNCHANGED <<file, npixel, nrec, data, slc, outcome>>
    /\ UNCHANGED fvars

\* fp.seek(248); npixel = int(fp.read(8))
ReadPixelCount ==
    /\ rpc = "npixel"
    /\ LET bytes == ReadField(file, file.f248, PixelCountOffset)
           r == ParseInt(bytes)
       IN  /\ pos' = PixelCountOffset + Len(bytes)
           /\ IF r.ok
              THEN npixel' = r.val /\ rpc' = "seek236" /\ UNCHANGED outcome
              ELSE Raise("ValueError") /\ UNCHANGED npixel
    /\ UNCHANGED <<file, fp, nrec, data, slc>>
    /\ UNCHANGED fvars

\* fp.seek(236).  The field there is sought and never read.
SeekRecordLength ==
    /\ rpc = "seek236"
    /\ pos' = RecordLengthOffset
    /\ rpc' = "nrec"
    /\ UNCHANGED <<file, fp, npixel, nrec, data, slc, outcome>>
    /\ UNCHANGED fvars

\* nrec = 412 + npixel * 8; nline = 18432; fp.seek(720)
ComputeRecordLength ==
    /\ rpc = "nrec"
    /\ nrec' = PrefixBytes + npixel * SampleBytes
    /\ pos' = DataStartOffset
    /\ rpc' = "unpack"
    /\ UNCHANGED <<file, fp, npixel, data, slc, outcome>>
    /\ UNCHANGED fvars

\* data = struct.unpack(">%sf" % int(nrec * nline / 4), fp.read(int(nrec * nline)))
ReadPayload ==
    /\ rpc = "unpack"
    /\ LET got == ReadLen(file, pos, nrec * nline)
           count == PyIntDiv(nrec * nline, FloatBytes)
       IN  /\ pos' = pos + got
           /\ IF UnpackOk(count, got)
              THEN data' = Unpack(pos, count) /\ rpc' = "reshape" /\ UNCHANGED outcome
              ELSE Raise("struct.error") /\ UNCHANGED data
    /\ UNCHANGED <<file, fp, npixel, nrec, slc>>
    /\ UNCHANGED fvars

\* data = np.array(data).reshape(-1, int(nrec / 4))
ReshapeData ==
    /\ rpc = "reshape"
    /\ LET w == PyIntDiv(nrec, FloatBytes)
       IN  IF ReshapeOk(data, w)
           THEN data' = Reshape(data, w) /\ rpc' = "prefix" /\ UNCHANGED outcome
           ELSE Raise("ValueError") /\ UNCHANGED data
    /\ UNCHANGED <<file, fp, pos, npixel, nrec, slc>>
    /\ UNCHANGED fvars

\* data = data[:, int(412 / 4) : int(nrec / 4)]
DropPrefix ==
    /\ rpc = "prefix"
    /\ data' = RemovePrefix(data, nrec)
    /\ rpc' = "iq"
    /\ UNCHANGED <<file, fp, pos, npixel, nrec, slc, outcome>>
    /\ UNCHANGED fvars

\* slc = data[:, ::2] + 1j * data[:, 1::2]
Deinterleave ==
    /\ rpc = "iq"
    /\ LET s == SeparateIQ(data)
       IN  IF s.ok
           THEN slc' = s /\ rpc' = "return" /\ UNCHANGED outcome
           ELSE Raise("ValueError") /\ UNCHANGED slc
    /\ UNCHANGED <<file, fp, pos, npixel, nrec, data>>
    /\ UNCHANGED fvars

\* return slc.  The function never calls fp.close(): when the frame is
\* dropped the handle is closed only if the runtime finalizes it at once
\* (reference counting does, a tracing collector does not).
Return ==
    /\ rpc = "return"
    /\ rpc' = "done"
    /\ outcome' = "return"
    /\ fp' \in {"open", "closed"}
    /\ UNCHANGED <<file, pos, npixel, nrec, data, slc>>
    /\ UNCHANGED fvars

ReaderNext ==
    \/ Open
    \/ ReadPixelCount
    \/ SeekRecordLength
    \/ ComputeRecordLength
    \/ ReadPayload
    \/ ReshapeData
    \/ DropPrefix
    \/ Deinterleave
    \/ Return

-----------------------------------------------------------------------------
(* Bounds of the filter's inputs.                                          *)

MaxLines == 3
MaxPixels == 4
MaxFft == 8
MaxNonFinite == 1

-----------------------------------------------------------------------------
(* Complex values of the filter.  An input sample is named by its place in *)
(* the matrix (so all samples differ) and is finite or not (NaN, Inf).     *)

Sample(r, c, finite) == [id |-> <<r, c>>, fin |-> finite]

ZeroSample == [id |-> <<0, 0>>, fin |-> TRUE]

n_lines == Len(img)

n_pixels == Len(img[1])

Shape(m) == <<Len(m), IF Len(m) = 0 THEN 0 ELSE Len(m[1])>>

\* np.fft.fft(row, n=n): the row is cropped to n samples or zero-padded to
\* n samples, and bin k (0 <= k < n) is the k-th DFT coefficient of that.
PadOrCrop(row, n) ==
    [k \in 1..n |-> IF k <= Len(row) THEN row[k] ELSE ZeroSample]

FftRow(row, n) ==
    LET x == PadOrCrop(row, n)
    IN  [k \in 1..n |-> [bin |-> k - 1, x |-> x]]

\* np.fft.fftshift: a rotation by n // 2, out[(k + n // 2) % n] = in[k].
FftShift(spectrum) ==
    LET n == Len(spectrum)
        shift == n \div 2
    IN  [i \in 1..n |-> spectrum[((i - 1 - shift) % n) + 1]]

\* A window coefficient [a, d] stands for 0.5 - 0.5 * cos(2 * pi * a / d).
ZeroCoef == [a |-> 0, d |-> 1]

\* scipy.signal.windows.hann(M), symmetric: ones(1) for M = 1, else
\* w[k] = 0.5 - 0.5 * cos(2 * pi * k / (M - 1)).
Hann(M) ==
    IF M = 1 THEN <<[a |-> 1, d |-> 2]>>
    ELSE [k \in 1..M |-> [a |-> k - 1, d |-> M - 1]]

CoefIsZero(c) == c.a % c.d = 0

\* Mutant of HannWindow: the taper laid over the whole spectrum.
HannWindowWhole(n) == Hann(n)

\* n_hann = int(n / 2); ind_hann_start = int(n / 4);
\* hann_window = np.zeros(n); hann_window[start:start + n_hann] = hann(n_hann)
HannWindow(n) ==
    LET n_hann == PyIntDiv(n, 2)
        ind_hann_start == PyIntDiv(n, 4)
        ind_hann_end == ind_hann_start + n_hann
        taper == Hann(n_hann)
    IN  [i \in 1..n |->
            IF ind_hann_start <= i - 1 /\ i - 1 < ind_hann_end
            THEN taper[i - ind_hann_start]
            ELSE ZeroCoef]

\* spectrum * hann_window: element by element.
MaskRow(spectrum, window) ==
    [i \in 1..Len(spectrum) |-> [term |-> spectrum[i], w |-> window[i]]]

\* np.fft.ifft(X): sample m of the inverse DFT of X, taken in the order X
\* is stored in.
IfftRow(X) ==
    [m \in 1..Len(X) |-> [m |-> m - 1, X |-> X]]

\* row[:p]
CropRow(row, p) ==
    SubSeq(row, 1, IF p < Len(row) THEN p ELSE Len(row))

\* IEEE arithmetic on the terms: a DFT coefficient is finite when every
\* sample it sums is; a product with a zero coefficient is exactly zero when
\* the other factor is finite and NaN otherwise.
FiniteRow(x) == \A k \in 1..Len(x) : x[k].fin

IsExactZero(e) == CoefIsZero(e.w) /\ FiniteRow(e.term.x)

-----------------------------------------------------------------------------
(* The filter's inputs.                                                    *)

Cells(l, p) == (1..l) \X (1..p)

Matrix(l, p, bad) ==
    [r \in 1..l |-> [c \in 1..p |-> Sample(r, c, <<r, c>> \notin bad)]]

Matrices ==
    UNION { { Matrix(l, p, bad) :
                bad \in {b \in SUBSET Cells(l, p) : Cardinality(b) <= MaxNonFinite} } :
            <<l, p>> \in (1..MaxLines) \X (1..MaxPixels) }

Rows == 1..n_lines

Unfilled == [r \in Rows |-> <<>>]

-----------------------------------------------------------------------------
(* The filter: the notebook's cells 3.1 to 3.3.  An array operation works  *)
(* on the rows one at a time, in an order numpy does not promise.          *)

FilterInit ==
    /\ img \in Matrices
    /\ n_fft \in 0..MaxFft
    /\ fpc = "fft"
    /\ todo = 1..Len(img)
    /\ slc_fft = [r \in 1..Len(img) |-> <<>>]
    /\ hann_window = <<>>
    /\ slc_fft_filtered = [r \in 1..Len(img) |-> <<>>]
    /\ slc_filtered = [r \in 1..Len(img) |-> <<>>]
    /\ foutcome = "running"

\* One array operation's row r is done; after the last row the next
\* statement runs.
RowDone(r, next) ==
    /\ todo' = IF todo = {r} THEN Rows ELSE todo \ {r}
    /\ fpc' = IF todo = {r} THEN next ELSE fpc

\* np.fft.fft(slc, n=n_fft, axis=1) with n_fft < 1
FftInvalid ==
    /\ fpc = "fft"
    /\ n_fft < 1
    /\ fpc' = "done"
    /\ foutcome' = "ValueError"
    /\ UNCHANGED <<n_fft, img, todo, slc_fft, hann_window, slc_fft_filtered,
                   slc_filtered>>
    /\ UNCHANGED rvars

\* slc_fft = np.fft.fftshift(np.fft.fft(slc, n=n_fft, axis=1), axes=1), row r
FftStep(r) ==
    /\ fpc = "fft"
    /\ n_fft >= 1
    /\ r \in todo
    /\ slc_fft' = [slc_fft EXCEPT ![r] = FftShift(FftRow(img[r], n_fft))]
    /\ RowDone(r, "hann")
    /\ UNCHANGED <<n_fft, img, hann_window, slc_fft_filtered, slc_filtered,
                   foutcome>>
    /\ UNCHANGED rvars

\* the construction of hann_window
BuildWindow ==
    /\ fpc = "hann"
    /\ hann_window' = HannWindow(n_fft)
    /\ fpc' = "mask"
    /\ UNCHANGED <<n_fft, img, todo, slc_fft, slc_fft_filtered, slc_filtered,
                   foutcome>>
    /\ UNCHANGED rvars

\* Mutant of MaskStep: row r is written from the next row's spectrum.
MaskStepNextRow(r) ==
    /\ fpc = "mask"
    /\ r \in todo
    /\ slc_fft_filtered' =
           [slc_fft_filtered EXCEPT
               ![r] = MaskRow(slc_fft[(r % n_lines) + 1], hann_window)]
    /\ RowDone(r, "ifft")
    /\ UNCHANGED <<n_fft, img, slc_fft, hann_window, slc_filtered, foutcome>>
    /\ UNCHANGED rvars

\* slc_fft_filtered = slc_fft * hann_window[None, :], row r
MaskStep(r) ==
    /\ fpc = "mask"
    /\ r \in todo
    /\ slc_fft_filtered' =
           [slc_fft_filtered EXCEPT ![r] = MaskRow(slc_fft[r], hann_window)]
    /\ RowDone(r, "ifft")
    /\ UNCHANGED <<n_fft, img, slc_fft, hann_window, slc_filtered, foutcome>>
    /\ UNCHANGED rvars

\* slc_filtered = np.fft.ifft(slc_fft_filtered), row r
IfftStep(r) ==
    /\ fpc = "ifft"
    /\ r \in todo
    /\ slc_filtered' = [slc_filtered EXCEPT ![r] = IfftRow(slc_fft_filtered[r])]
    /\ RowDone(r, "crop")
    /\ UNCHANGED <<n_fft, img, slc_fft, hann_window, slc_fft_filtered, foutcome>>
    /\ UNCHANGED rvars

\* slc_filtered = slc_filtered[:, :n_pixels]
Crop ==
    /\ fpc = "crop"
    /\ slc_filtered' = [r \in Rows |-> CropRow(slc_filtered[r], n_pixels)]
    /\ fpc' = "done"
    /\ foutcome' = "return"
    /\ UNCHANGED <<n_fft, img, todo, slc_fft, hann_window, slc_fft_filtered>>
    /\ UNCHANGED rvars

FilterNext ==
    \/ FftInvalid
    \/ \E r \in Rows : FftStep(r)
    \/ BuildWindow
    \/ \E r \in Rows : MaskStep(r)
    \/ \E r \in Rows : IfftStep(r)
    \/ Crop

-----------------------------------------------------------------------------
(* The two specifications.  Each leaves the other component idle.          *)

ReaderIdle ==
    /\ file = [size |-> 0, f236 |-> Spaces(FieldBytes), f248 |-> Spaces(FieldBytes)]
    /\ rpc = "idle"
    /\ fp = "none"
    /\ pos = 0
    /\ npixel = 0
    /\ nrec = 0
    /\ data = NoView
    /\ slc = NoSlc
    /\ outcome = "running"

FilterIdle ==
    /\ fpc = "idle"
    /\ n_fft = 0
    /\ img = <<>>
    /\ todo = {}
    /\ slc_fft = <<>>
    /\ hann_window = <<>>
    /\ slc_fft_filtered = <<>>
    /\ slc_filtered = <<>>
    /\ foutcome = "running"

InitReader == ReaderInit /\ FilterIdle

InitFilter == FilterInit /\ ReaderIdle

SpecReader == InitReader /\ [][ReaderNext]_vars

SpecFilter == InitFilter /\ [][FilterNext]_vars

-----------------------------------------------------------------------------
(* Claims about the reader, checked under SpecReader.                      *)

\* What the claims call the file's header value and its payload.
HeaderPixelCount == ParseInt(file.f248)

RecordLength(p) == PrefixBytes + p * SampleBytes

PayloadAvailable ==
    IF file.size > DataStartOffset THEN file.size - DataStartOffset ELSE 0

LongEnough(p) ==
    /\ file.size >= PixelCountOffset + FieldBytes
    /\ PayloadAvailable >= RecordLength(p) * nline

\* C1 as stated: for every file that is long enough and whose field at
\* offset 248 decodes to a decimal integer pixel_count, the reader returns
\* a matrix of shape (18432, pixel_count).
C1_ShapeAnyInteger ==
    (rpc = "done" /\ HeaderPixelCount.ok /\ LongEnough(HeaderPixelCount.val))
        => /\ outcome = "return"
           /\ slc.ok
           /\ slc.shape = <<18432, HeaderPixelCount.val>>

\* C1 as amended: for every file that is long enough and whose field at
\* offset 248 decodes to a non-negative decimal integer pixel_count, the
\* reader returns a matrix of shape (18432, pixel_count).
C1_ShapeNonNegative ==
    (rpc = "done" /\ HeaderPixelCount.ok /\ HeaderPixelCount.val >= 0
                  /\ LongEnough(HeaderPixelCount.val))
        => /\ outcome = "return"
           /\ slc.ok
           /\ slc.shape = <<18432, HeaderPixelCount.val>>

\* C1's case: a complete file with pixel_count 3 has been read.
C1_Witness ==
    /\ rpc = "done"
    /\ outcome = "return"
    /\ HeaderPixelCount.val = 3
    /\ slc.shape = <<18432, 3>>

\* C2: when the header field decodes and the file holds fewer than
\* record_length * 18432 bytes after offset 720, the reader ends in the
\* truncation failure (struct.error) and returns no matrix, never a partial
\* or padded one; a header field that does not decode ends in the other
\* failure kind (ValueError) instead.
C2_TruncatedFails ==
    rpc = "done" =>
        LET field == ParseInt(ReadField(file, file.f248, PixelCountOffset))
        IN  /\ (field.ok /\ PayloadAvailable < RecordLength(field.val) * nline)
                  => (outcome = "struct.error" /\ ~slc.ok /\ data = NoView)
            /\ ~field.ok => (outcome = "ValueError" /\ ~slc.ok)

\* C2's case: the payload of a file with pixel_count 2 is one byte short.
C2_Witness ==
    /\ rpc = "done"
    /\ outcome = "struct.error"
    /\ npixel = 2
    /\ PayloadAvailable = RecordLength(2) * nline - 1

\* C3: the reader fails with the format failure (ValueError) whenever either
\* header field, at offset 248 or at offset 236, is not a decimal integer,
\* so a file with a non-numeric field at offset 236 never yields a matrix.
\* Stated for the files that hold their whole payload, where no other
\* failure can come first.
C3_BothFieldsValidated ==
    (/\ rpc = "done"
     /\ file.size >= PixelCountOffset + FieldBytes
     /\ HeaderPixelCount.ok => HeaderPixelCount.val > 0
     /\ PayloadAvailable >= PayloadBytes(file.f248)
     /\ ~ParseInt(file.f236).ok \/ ~ParseInt(file.f248).ok)
        => (outcome = "ValueError" /\ ~slc.ok)

\* C4: on every exit path of the reader (return, unparseable header,
\* truncated payload) the handle opened at the start is closed when control
\* is back with the caller.
C4_HandleClosed ==
    rpc = "done" => fp = "closed"

-----------------------------------------------------------------------------
(* Claims about the filter, checked under SpecFilter.                      *)

Masked == fpc \in {"ifft", "crop", "done"} /\ foutcome # "ValueError"

Returned == fpc = "done" /\ foutcome = "return"

AllFinite == \A r \in Rows : FiniteRow(img[r])

\* Indices (from 0) of the shifted spectrum outside the pass band.
OutOfBand(n) ==
    {k \in 0..(n - 1) : k < n \div 4 \/ k >= n \div 4 + n \div 2}

\* The whole pipeline on one row, as one expression.
FilterRow(row, n, p) ==
    CropRow(IfftRow(MaskRow(FftShift(FftRow(row, n)), HannWindow(n))), p)

\* C5: when the FFT size is smaller than the number of columns the filter
\* ends in a failure and produces no filtered matrix; it never returns rows
\* silently truncated to n_fft samples.  Stated for matrices of finite
\* samples.
C5_SmallFftRejected ==
    (fpc = "done" /\ AllFinite /\ n_fft < n_pixels)
        => (foutcome # "return" /\ slc_filtered = Unfilled)

\* C6: whenever the filter returns a matrix, it has the rows and the
\* columns of the input matrix, for every FFT size.  Stated for matrices of
\* finite samples.
C6_ShapePreserved ==
    (Returned /\ AllFinite) => Shape(slc_filtered) = Shape(img)

C8_ShiftUndone ==
    (Returned /\ AllFinite) =>
        \A r \in Rows : \A m \in 1..Len(slc_filtered[r]) : \A i \in 0..(n_fft - 1) :
            slc_filtered[r][m].X[i + 1].term = FftRow(img[r], n_fft)[i + 1]

\* C10: output row i depends only on input row i and the window, so the
\* rows may be processed in any order or interleaving with the result of
\* sequential processing; no step modifies the input matrix, and none
\* modifies the window once it is built.
C10_RowIndependent ==
    /\ [](Returned =>
            \A r \in Rows : slc_filtered[r] = FilterRow(img[r], n_fft, n_pixels))
    /\ [][/\ img' = img
          /\ fpc \in {"mask", "ifft", "crop", "done"} => hann_window' = hann_window]_vars

\* C10's case: row 2 went through the mask before row 1.
C10_Witness ==
    /\ fpc = "mask"
    /\ todo = {1}
    /\ n_lines = 2
    /\ slc_fft_filtered[2] # <<>>
    /\ slc_fft_filtered[1] = <<>>

====
